---- MODULE Spec2Model ----
(***************************************************************************)
(* Model of the report workflow of deep_ai (agent.py, util.py) and of its  *)
(* caller run_agent (app.py).                                              *)
(*                                                                         *)
(* Strings are sequences of tokens.  A token is one character, except      *)
(* Marker, which stands for the 16 characters TEMP_PLACEHOLDER: that text  *)
(* has no proper prefix that is also a suffix, so an occurrence of it      *)
(* never straddles the boundary of another occurrence and str.replace      *)
(* treats it as a unit.                                                    *)
(***************************************************************************)
EXTENDS Integers, Sequences, FiniteSets, TLC

VARIABLES
    \* ---- the workflow (agent.py ReportState, builder) and run_agent ----
    pc,                            \* node of the graph about to run / END / ERROR
    sections,                      \* ReportState.sections
    completed_sections,            \* ReportState.completed_sections
    report_sections_from_research, \* ReportState.report_sections_from_research
    final_report,                  \* ReportState.final_report
    branch,                        \* per planned section: the state of its Send() branch
    report_content,                \* run_agent's local report_content / return value
    err,                           \* the node whose exception ended the run
    planning,                      \* the locals of generate_report_plan while it runs
    \* ---- compile_final_report's escaping pass on its own ----
    all_sections,                  \* the joined text
    formatted_sections,            \* the text after the three replace() calls
    \* ---- format_search_query_results ----
    search_response,               \* argument
    include_raw_content,           \* argument
    formatted_text,                \* return value
    \* ---- run_search_queries ----
    rs_pc,                         \* position inside run_search_queries
    search_queries,                \* argument
    tavily,                        \* does get_tavily_search() succeed, and each query's outcome
    search_tasks,                  \* the coroutines created so far
    valid_results,                 \* return value
    \* ---- the report thread and the page that polls it (app.py) ----
    t_pc,                          \* position of the thread that runs process_report
    t_outcome,                     \* how the graph run of this thread will end
    t_events,                      \* state keys run_agent has reported as progress
    t_report_content,              \* run_agent's return value, as process_report holds it
    progress_queue,                \* queue.Queue of (type, value) updates
    result_queue,                  \* queue.Queue of the final report
    ui_pc,                         \* position of the page script
    ui_report_content,             \* the page script's local report_content
    \* ---- the API keys of the sessions of one server process (app.py) ----
    authenticated,                 \* st.session_state.authenticated, per session
    api_keys_set,                  \* st.session_state.api_keys_set, per session
    session_api_key,               \* st.session_state.openai_api_key / tavily_api_key
    environ_api_key,               \* os.environ['OPENAI_API_KEY'] / ['TAVILY_API_KEY']
    keys_entered,                  \* how many times each session submitted the key form
    signed_out_keys,               \* the keys whose user has signed out since
    script,                        \* position of each session's script run
    shown,                         \* what each session's last script run ended with
    gen,                           \* each session's report thread and the key it uses
    \* ---- the report store (utils/storage.py) ----
    bucket,                        \* the objects of bucket "deepresearch-reports"
    now,                           \* datetime.now(), in seconds
    returned,                      \* paths save_report returned, not deleted since
    st_call                        \* the last call: its arguments, the path used, its result

wfVars == <<pc, sections, completed_sections, report_sections_from_research,
            final_report, branch, report_content, err, planning>>
escVars == <<all_sections, formatted_sections>>
fmtVars == <<search_response, include_raw_content, formatted_text>>
rsVars == <<rs_pc, search_queries, tavily, search_tasks, valid_results>>
pollVars == <<t_pc, t_outcome, t_events, t_report_content, progress_queue, result_queue,
              ui_pc, ui_report_content>>
keyVars == <<authenticated, api_keys_set, session_api_key, environ_api_key, keys_entered,
             signed_out_keys, script, shown, gen>>
stVars == <<bucket, now, returned, st_call>>
appVars == <<pollVars, keyVars, stVars>>
vars == <<wfVars, escVars, fmtVars, rsVars, appVars>>

\* A value no field of the program holds: an unset channel, a missing dict key,
\* a function that has not returned.
None == "<none>"
\* The same where the field holds a text or a list.
NoValue == <<None>>
\* The same where the field holds the text of format_sections.
NoContext == <<[idx |-> 0, name |-> None, research |-> FALSE, content |-> <<>>]>>

-----------------------------------------------------------------------------
(* Bounds *)

MaxTextLen == 4      \* length of the texts given to the escaping pass
MaxResponses == 2    \* responses in one search batch
MaxItems == 3        \* sources in one search batch
MaxQueries == 3      \* queries given to run_search_queries
MaxSections == 3     \* sections in a plan
MaxTokens == 2       \* max_tokens of format_search_query_results
MaxEvents == 2       \* progress updates of a run before its last event
MaxKeyEntries == 1   \* times one session submits the API key form
MaxClock == 1        \* seconds that pass while the store is used

-----------------------------------------------------------------------------
(* Python helpers *)

Min(a, b) == IF a < b THEN a ELSE b

\* str.replace(old, new): every non-overlapping occurrence, scanning from the left
RECURSIVE StrReplace(_, _, _)
StrReplace(s, old, new) ==
    IF Len(s) < Len(old) THEN s
    ELSE IF SubSeq(s, 1, Len(old)) = old
         THEN new \o StrReplace(SubSeq(s, Len(old) + 1, Len(s)), old, new)
         ELSE <<s[1]>> \o StrReplace(Tail(s), old, new)

\* sep.join(parts)
RECURSIVE StrJoin(_, _)
StrJoin(sep, parts) ==
    IF Len(parts) = 0 THEN <<>>
    ELSE IF Len(parts) = 1 THEN parts[1]
    ELSE parts[1] \o sep \o StrJoin(sep, Tail(parts))

\* list.extend over a list of lists
RECURSIVE Concat(_)
Concat(ss) == IF Len(ss) = 0 THEN <<>> ELSE ss[1] \o Concat(Tail(ss))

\* all sequences over S of length at most n
SeqsUpTo(S, n) == UNION {[1..k -> S] : k \in 0..n}

-----------------------------------------------------------------------------
(* compile_final_report: the escaping pass, agent.py 382-385 *)

Dollar == "$"
Backslash == "\\"
Marker == "TEMP_PLACEHOLDER"
EscapedDollar == <<Backslash, Dollar>>

\* a bug: the escaped '$' not marked before all '$' are escaped
MarkEscaped_Skipped(s) == s

MarkEscaped(s) == StrReplace(s, EscapedDollar, <<Marker>>)
EscapeAll(s) == StrReplace(s, <<Dollar>>, EscapedDollar)
\* a bug: the marker restored without its backslash
RestoreEscaped_Bare(s) == StrReplace(s, <<Marker>>, <<Dollar>>)
RestoreEscaped(s) == StrReplace(s, <<Marker>>, EscapedDollar)

EscapePass(s) == RestoreEscaped(EscapeAll(MarkEscaped(s)))

Alphabet == {Dollar, Backslash, "a", Marker}
Texts == SeqsUpTo(Alphabet, MaxTextLen)

-----------------------------------------------------------------------------
(* format_search_query_results, util.py 87-139 *)

\* A source is what a provider puts in a result list: a dict (any of whose keys
\* may be missing: None, and for raw_content the empty text, which the code
\* treats alike) or something that is not a dict.
Source(isdict, url, title, content, raw) ==
    [isdict |-> isdict, url |-> url, title |-> title, content |-> content,
     raw_content |-> raw]

Sources ==
    { Source(TRUE, "u1", "t1", "c1", <<"r", "r", "r">>),
      Source(TRUE, "u1", "t2", "c2", <<>>),
      Source(TRUE, "u2", None, None, <<"r">>),
      Source(TRUE, None, "t1", "c1", <<>>),
      Source(FALSE, None, None, None, <<>>) }

\* A response is a dict with a 'results' list, a dict without one (a source by
\* itself), a list of sources, or a value of another type; here with at most k
\* sources.
Responses(k) ==
    [shape : {"results", "list"}, items : SeqsUpTo(Sources, k)]
      \cup {[shape |-> "doc", items |-> <<s>>] : s \in {x \in Sources : k > 0 /\ x.isdict}}
      \cup {[shape |-> "other", items |-> <<>>]}

\* The argument: one dict, a list of responses (here the empty one, which
\* Respond fills), or a value of another type.
SearchResponses ==
    {[top |-> "dict", resps |-> <<r>>] :
        r \in {x \in Responses(MaxItems) : x.shape \in {"results", "doc"}}}
      \cup {[top |-> "list", resps |-> <<>>], [top |-> "other", resps |-> <<>>]}

\* util.py 98-101 and 105-111: what one response adds to sources_list
FlattenResponse_KeepOther(r) ==
    CASE r.shape = "results" -> r.items
      [] r.shape = "doc" -> r.items
      [] r.shape = "list" -> r.items
      [] OTHER -> <<Source(FALSE, None, None, None, <<>>)>>

FlattenResponse(r) ==
    CASE r.shape = "results" -> r.items
      [] r.shape = "doc" -> r.items
      [] r.shape = "list" -> r.items
      [] OTHER -> <<>>

\* util.py 93-111
SourcesList(sr) ==
    IF sr.top \in {"dict", "list"}
    THEN Concat([i \in 1..Len(sr.resps) |-> FlattenResponse(sr.resps[i])])
    ELSE <<>>

KnownUrl(acc, url) == \E k \in 1..Len(acc) : acc[k].url = url

\* a bug: a later source with a known URL replaces the one kept
RECURSIVE UniqueSources_LastWins(_, _)
UniqueSources_LastWins(list, acc) ==
    IF Len(list) = 0 THEN acc
    ELSE LET source == Head(list)
         IN IF source.isdict /\ source.url # None
            THEN IF KnownUrl(acc, source.url)
                 THEN UniqueSources_LastWins(Tail(list),
                        [k \in 1..Len(acc) |->
                            IF acc[k].url = source.url THEN source ELSE acc[k]])
                 ELSE UniqueSources_LastWins(Tail(list), Append(acc, source))
            ELSE UniqueSources_LastWins(Tail(list), acc)

\* a bug: every source with a URL kept, known or not
RECURSIVE UniqueSources_KeepAll(_, _)
UniqueSources_KeepAll(list, acc) ==
    IF Len(list) = 0 THEN acc
    ELSE LET source == Head(list)
         IN IF source.isdict /\ source.url # None
            THEN UniqueSources_KeepAll(Tail(list), Append(acc, source))
            ELSE UniqueSources_KeepAll(Tail(list), acc)

\* a bug: a dict without a 'url' key kept as a source
RECURSIVE UniqueSources_AnyDict(_, _)
UniqueSources_AnyDict(list, acc) ==
    IF Len(list) = 0 THEN acc
    ELSE LET source == Head(list)
         IN IF source.isdict /\ ~KnownUrl(acc, source.url)
            THEN UniqueSources_AnyDict(Tail(list), Append(acc, source))
            ELSE UniqueSources_AnyDict(Tail(list), acc)

\* util.py 117-121: the dict unique_sources, in insertion order
RECURSIVE UniqueSources(_, _)
UniqueSources(list, acc) ==
    IF Len(list) = 0 THEN acc
    ELSE LET source == Head(list)
         IN IF source.isdict /\ source.url # None /\ ~KnownUrl(acc, source.url)
            THEN UniqueSources(Tail(list), Append(acc, source))
            ELSE UniqueSources(Tail(list), acc)

NoResultsText == <<"No search results found.">>
Header == "Content from web search:"
Untitled == "Untitled"
NoContent == "No content available"

\* util.py 132-137: the raw content, cut to max_tokens tokens
RawContent(source, max_tokens, include_raw) ==
    IF include_raw /\ Len(source.raw_content) > 0
    THEN SubSeq(source.raw_content, 1, Min(max_tokens, Len(source.raw_content)))
    ELSE <<>>

\* util.py 126-137: the text block of one source
Block(source, max_tokens, include_raw) ==
    [title |-> IF source.title = None THEN Untitled ELSE source.title,
     url |-> source.url,
     content |-> IF source.content = None THEN NoContent ELSE source.content,
     raw |-> RawContent(source, max_tokens, include_raw)]

\* util.py 87-139.  The text is the header followed by the blocks; strip()
\* removes the blank lines that end it.
FormatSearchQueryResults(sr, max_tokens, include_raw) ==
    LET sources_list == SourcesList(sr)
        unique_sources == UniqueSources(sources_list, <<>>)
    IN IF Len(sources_list) = 0
       THEN NoResultsText
       ELSE <<Header>> \o [i \in 1..Len(unique_sources) |->
                              Block(unique_sources[i], max_tokens, include_raw)]

-----------------------------------------------------------------------------
(* run_search_queries, util.py 32-82 *)

Failed == "exception"          \* what gather(return_exceptions=True) puts for a failed search
Docs == {"docs1", "docs2"}     \* what a successful search returns
QueryTexts == {"q1", "q2"}

\* A query is a plain string or a SearchQuery wrapping one.
Queries == [wrapped : BOOLEAN, text : QueryTexts]

\* util.py 52
QueryStr(query) == query.text

\* a bug: gather() without return_exceptions, the exception caught at line 80
ValidResults_AllOrNothing(search_docs) ==
    IF \E i \in 1..Len(search_docs) : search_docs[i] = Failed THEN <<>> ELSE search_docs

\* util.py 75-78
RECURSIVE ValidResults(_)
ValidResults(search_docs) ==
    IF Len(search_docs) = 0 THEN <<>>
    ELSE IF Head(search_docs) # Failed
         THEN <<Head(search_docs)>> \o ValidResults(Tail(search_docs))
         ELSE ValidResults(Tail(search_docs))

\* util.py 73: the provider's answer to each task, in task order
Gather(tasks, outcome) == [i \in 1..Len(tasks) |-> outcome[tasks[i].index]]

\* util.py 32-82 as one call
RunSearchQueries(queries, client) ==
    IF ~client.ok THEN <<>>
    ELSE LET tasks == [i \in 1..Len(queries) |-> [query |-> QueryStr(queries[i]), index |-> i]]
         IN IF Len(tasks) = 0 THEN <<>> ELSE ValidResults(Gather(tasks, client.outcome))

\* util.py 41-45
RS_GetClient ==
    /\ rs_pc = "get_tavily_search"
    /\ IF tavily.ok
       THEN /\ rs_pc' = "for"
            /\ UNCHANGED valid_results
       ELSE /\ rs_pc' = "returned"
            /\ valid_results' = <<>>
    /\ UNCHANGED <<search_queries, tavily, search_tasks>>
    /\ UNCHANGED <<wfVars, escVars, fmtVars, appVars>>

\* util.py 47-67: one turn of the loop; creating the coroutine cannot raise
RS_CreateTask ==
    /\ rs_pc = "for"
    /\ Len(search_tasks) < Len(search_queries)
    /\ LET i == Len(search_tasks) + 1
       IN search_tasks' = Append(search_tasks,
                                 [query |-> QueryStr(search_queries[i]), index |-> i])
    /\ UNCHANGED <<rs_pc, search_queries, tavily, valid_results>>
    /\ UNCHANGED <<wfVars, escVars, fmtVars, appVars>>

\* util.py 70-79
RS_Gather ==
    /\ rs_pc = "for"
    /\ Len(search_tasks) = Len(search_queries)
    /\ valid_results' = IF Len(search_tasks) = 0 THEN <<>>
                        ELSE ValidResults(Gather(search_tasks, tavily.outcome))
    /\ rs_pc' = "returned"
    /\ UNCHANGED <<search_queries, tavily, search_tasks>>
    /\ UNCHANGED <<wfVars, escVars, fmtVars, appVars>>

-----------------------------------------------------------------------------
(* The report workflow, agent.py *)

NameList == <<"A", "B", "C", "D">>
Names == {NameList[k] : k \in 1..Len(NameList)}

\* What the LLM writes as the content of a section; it may be the empty text.
WrittenContents == {<<>>, <<Dollar>>}

\* agent.py 229
ErrorContent == <<"Error: Could not generate content due to API issues.">>

\* agent.py 19-31; the description only feeds the prompts and is left out
Section(name, research, content) ==
    [name |-> name, research |-> research, content |-> content]

NameIndex(name) == CHOOSE k \in 1..Len(NameList) : NameList[k] = name

\* Names only matter by which of them are equal: a plan names its first
\* section A, and takes a new name only after the ones before it.
FirstUse(plan) ==
    \A i \in 1..Len(plan) :
       \/ NameIndex(plan[i].name) = 1
       \/ \E j \in 1..(i - 1) : NameIndex(plan[j].name) >= NameIndex(plan[i].name) - 1

\* The plan the prompt of agent.py 136-141 asks for: an introduction, sections
\* that need research (here two) and a conclusion.
ExamplePlan ==
    <<Section("A", FALSE, <<>>), Section("B", TRUE, <<>>),
      Section("C", TRUE, <<>>), Section("D", FALSE, <<>>)>>

\* What the planning LLM can return: any list of sections, names not checked.
Plans ==
    {plan \in SeqsUpTo([name : Names, research : BOOLEAN, content : {<<>>}], MaxSections) :
        FirstUse(plan)}
      \cup {ExamplePlan}

\* What the LLM returns as queries (agent.py 108, 184).
QueryLists == {<<>>, <<[wrapped |-> TRUE, text |-> "q1"], [wrapped |-> TRUE, text |-> "q2"]>>}

\* agent.py 114-117 and 202: the query strings given to run_search_queries
Unwrapped(queries) ==
    [i \in 1..Len(queries) |-> [wrapped |-> FALSE, text |-> queries[i].text]]

\* The search provider as one call of run_search_queries meets it.
Clients(queries) ==
    {[ok |-> ok, outcome |-> o] :
        ok \in BOOLEAN, o \in [1..Len(queries) -> {"docs1", Failed}]}

\* The documents behind a successful search.
ProviderDocs(id) ==
    [shape |-> "results",
     items |-> <<Source(TRUE, "u1", "t1", "c1", <<"r", "r", "r">>)>>]

SearchFailed(client) ==
    ~client.ok \/ \E i \in 1..Len(client.outcome) : client.outcome[i] = Failed

AsResponse(search_docs) ==
    [top |-> "list", resps |-> [i \in 1..Len(search_docs) |-> ProviderDocs(search_docs[i])]]

\* agent.py 203-206
SearchContext(queries, client) ==
    FormatSearchQueryResults(AsResponse(RunSearchQueries(Unwrapped(queries), client)),
                             MaxTokens, TRUE)

NewBranch(node, context) ==
    [node |-> node, search_queries |-> <<>>, source_str |-> NoValue,
     report_sections_from_research |-> context]

AllDone(research) ==
    \A i \in 1..Len(sections) : sections[i].research = research => branch[i].node = "done"

\* An exception leaves the graph: astream raises, run_agent returns None (app.py 1526-1531)
Raise(node) ==
    /\ pc' = "ERROR"
    /\ err' = node
    /\ report_content' = NoValue

\* The locals of generate_report_plan: where it is (once it has returned, the
\* return statement it left by), and what it holds.
Planning(at) == [at |-> at, query_list |-> <<>>, search_context |-> NoValue]

\* parallelize_section_writing, agent.py 268-277, as the conditional edge of
\* agent.py 405-407 uses it: one Send per research section; with no Send no
\* node is left to run and the graph ends
PlanReturn(report_sections, line) ==
    /\ sections' = report_sections
    /\ branch' = [i \in 1..Len(report_sections) |->
                    IF report_sections[i].research
                    THEN NewBranch("generate_queries", NoContext)
                    ELSE NewBranch("idle", NoContext)]
    /\ pc' = IF \E i \in 1..Len(report_sections) : report_sections[i].research
             THEN "section_builder_with_web_search"
             ELSE "END"
    /\ planning' = Planning(line)

\* agent.py 89-93
PlanGetLLM ==
    /\ pc = "generate_report_plan"
    /\ planning.at = "get_llm"
    /\ \E llm_ok \in BOOLEAN :
         planning' = [planning EXCEPT !.at = IF llm_ok THEN "invoke_queries"
                                          ELSE "except_get_llm"]
    /\ UNCHANGED <<pc, sections, completed_sections, report_sections_from_research,
                   final_report, branch, report_content, err>>
    /\ UNCHANGED <<escVars, fmtVars, rsVars, appVars>>

\* agent.py 108-117
PlanInvokeQueries ==
    /\ pc = "generate_report_plan"
    /\ planning.at = "invoke_queries"
    /\ \E invoke_ok \in BOOLEAN, queries \in QueryLists :
         planning' = IF invoke_ok
                     THEN [planning EXCEPT !.at = "run_search_queries",
                                           !.query_list = Unwrapped(queries)]
                     ELSE [planning EXCEPT !.at = "except"]
    /\ UNCHANGED <<pc, sections, completed_sections, report_sections_from_research,
                   final_report, branch, report_content, err>>
    /\ UNCHANGED <<escVars, fmtVars, rsVars, appVars>>

\* agent.py 120-133
PlanRunSearch ==
    /\ pc = "generate_report_plan"
    /\ planning.at = "run_search_queries"
    /\ \E client \in Clients(planning.query_list) :
         LET search_docs == RunSearchQueries(planning.query_list, client)
         IN planning' = [planning EXCEPT
                !.at = "invoke_sections",
                !.search_context =
                    IF Len(search_docs) = 0 THEN <<"No search results available.">>
                    ELSE FormatSearchQueryResults(AsResponse(search_docs), MaxTokens, FALSE)]
    /\ UNCHANGED <<pc, sections, completed_sections, report_sections_from_research,
                   final_report, branch, report_content, err>>
    /\ UNCHANGED <<escVars, fmtVars, rsVars, appVars>>

\* agent.py 142-149: the plan is returned, or the call raises
PlanInvokeSections ==
    /\ pc = "generate_report_plan"
    /\ planning.at = "invoke_sections"
    /\ \E invoke_ok \in BOOLEAN, report_sections \in Plans :
         IF invoke_ok
         THEN PlanReturn(report_sections, "return_149")
         ELSE /\ planning' = [planning EXCEPT !.at = "except"]
              /\ UNCHANGED <<pc, sections, branch>>
    /\ UNCHANGED <<completed_sections, report_sections_from_research,
                   final_report, report_content, err>>
    /\ UNCHANGED <<escVars, fmtVars, rsVars, appVars>>

\* a bug: a default plan returned in place of the empty list
SectionsOnError_Default == <<Section("A", FALSE, <<>>)>>

\* agent.py 93 and 153: the sections returned after an exception
SectionsOnError == <<>>

\* agent.py 91-93 and 151-153
PlanExcept ==
    /\ pc = "generate_report_plan"
    /\ planning.at \in {"except_get_llm", "except"}
    /\ PlanReturn(SectionsOnError,
                  IF planning.at = "except_get_llm" THEN "return_93" ELSE "return_153")
    /\ UNCHANGED <<completed_sections, report_sections_from_research,
                   final_report, report_content, err>>
    /\ UNCHANGED <<escVars, fmtVars, rsVars, appVars>>

\* a bug: an edge from generate_queries to write_section, the search left out
GenerateQueries_SkipSearch(i) ==
    /\ pc = "section_builder_with_web_search"
    /\ branch[i].node = "generate_queries"
    /\ branch' = [branch EXCEPT ![i].node = "write_section"]
    /\ UNCHANGED <<pc, err, report_content>>
    /\ UNCHANGED <<sections, completed_sections, report_sections_from_research,
                   final_report, planning>>
    /\ UNCHANGED <<escVars, fmtVars, rsVars, appVars>>

\* agent.py 158-189: the structured call is outside any try
GenerateQueries(i) ==
    /\ pc = "section_builder_with_web_search"
    /\ branch[i].node = "generate_queries"
    /\ \E llm_ok \in BOOLEAN, invoke_ok \in BOOLEAN, queries \in QueryLists :
         IF llm_ok /\ ~invoke_ok
         THEN /\ Raise("generate_queries")
              /\ UNCHANGED branch
         ELSE /\ branch' = [branch EXCEPT ![i].node = "search_web",
                                          ![i].search_queries =
                                              IF llm_ok THEN queries ELSE <<>>]
              /\ UNCHANGED <<pc, err, report_content>>
    /\ UNCHANGED <<sections, completed_sections, report_sections_from_research,
                   final_report, planning>>
    /\ UNCHANGED <<escVars, fmtVars, rsVars, appVars>>

\* agent.py 193-210
SearchWeb(i) ==
    /\ pc = "section_builder_with_web_search"
    /\ branch[i].node = "search_web"
    /\ \E client \in Clients(branch[i].search_queries) :
         branch' = [branch EXCEPT ![i].node = "write_section",
                                  ![i].source_str =
                                      SearchContext(branch[i].search_queries, client)]
    /\ UNCHANGED <<pc, sections, completed_sections, report_sections_from_research,
                   final_report, report_content, err, planning>>
    /\ UNCHANGED <<escVars, fmtVars, rsVars, appVars>>

\* a bug: the writer returns no completed section
Written_NoAppend(i, content) ==
    /\ sections' = [sections EXCEPT ![i].content = content]
    /\ UNCHANGED completed_sections
    /\ branch' = [branch EXCEPT ![i] = NewBranch("done", NoContext)]
    /\ UNCHANGED <<pc, err, report_content>>

\* a bug: completed_sections without its reducer, the last write replacing the list
Written_Overwrite(i, content) ==
    /\ sections' = [sections EXCEPT ![i].content = content]
    /\ completed_sections' = <<[sections[i] EXCEPT !.content = content]>>
    /\ branch' = [branch EXCEPT ![i] = NewBranch("done", NoContext)]
    /\ UNCHANGED <<pc, err, report_content>>

\* a bug: the writer clears the research flag of the section it has written
Written_ClearsFlag(i, content) ==
    /\ sections' = [sections EXCEPT ![i].content = content, ![i].research = FALSE]
    /\ completed_sections' = Append(completed_sections,
                                    [sections[i] EXCEPT !.content = content])
    /\ branch' = [branch EXCEPT ![i] = NewBranch("done", NoContext)]
    /\ UNCHANGED <<pc, err, report_content>>

\* a bug: the writer returns the section under a title of its own
Written_Renamed(i, content) ==
    /\ sections' = [sections EXCEPT ![i].content = content]
    /\ completed_sections' =
          Append(completed_sections,
                 [sections[i] EXCEPT !.content = content,
                                     !.name = NameList[(NameIndex(@) % Len(NameList)) + 1]])
    /\ branch' = [branch EXCEPT ![i] = NewBranch("done", NoContext)]
    /\ UNCHANGED <<pc, err, report_content>>

\* The section a writer returns.  The Section object the branch was sent is the
\* one in state["sections"], so the assignment to section.content shows there.
Written(i, content) ==
    /\ sections' = [sections EXCEPT ![i].content = content]
    /\ completed_sections' = Append(completed_sections,
                                    [sections[i] EXCEPT !.content = content])
    /\ branch' = [branch EXCEPT ![i] = NewBranch("done", NoContext)]
    /\ UNCHANGED <<pc, err, report_content>>

\* agent.py 214-248: llm.invoke is outside any try
WriteSection(i) ==
    /\ pc = "section_builder_with_web_search"
    /\ branch[i].node = "write_section"
    /\ \E llm_ok \in BOOLEAN, invoke_ok \in BOOLEAN, content \in WrittenContents :
         IF ~llm_ok THEN Written(i, ErrorContent)
         ELSE IF invoke_ok THEN Written(i, content)
         ELSE /\ Raise("write_section")
              /\ UNCHANGED <<sections, completed_sections, branch>>
    /\ UNCHANGED <<report_sections_from_research, final_report, planning>>
    /\ UNCHANGED <<escVars, fmtVars, rsVars, appVars>>

\* a bug: the edge taken as soon as one research branch has ended
ResearchJoin_FirstDone ==
    /\ pc = "section_builder_with_web_search"
    /\ \E i \in 1..Len(sections) : sections[i].research /\ branch[i].node = "done"
    /\ pc' = "format_completed_sections"
    /\ UNCHANGED <<sections, completed_sections, report_sections_from_research,
                   final_report, branch, report_content, err, planning>>
    /\ UNCHANGED <<escVars, fmtVars, rsVars, appVars>>

\* agent.py 408: the edge into format_completed_sections is taken when the
\* step that ran the research branches ends
ResearchJoin ==
    /\ pc = "section_builder_with_web_search"
    /\ AllDone(TRUE)
    /\ pc' = "format_completed_sections"
    /\ UNCHANGED <<sections, completed_sections, report_sections_from_research,
                   final_report, branch, report_content, err, planning>>
    /\ UNCHANGED <<escVars, fmtVars, rsVars, appVars>>

\* a bug: an empty content shown as it is
FormatSections_NoPlaceholder(list) ==
    [idx \in 1..Len(list) |->
        [idx |-> idx, name |-> list[idx].name, research |-> list[idx].research,
         content |-> list[idx].content]]

\* agent.py 281-298: one block per section
FormatSections(list) ==
    [idx \in 1..Len(list) |->
        [idx |-> idx, name |-> list[idx].name, research |-> list[idx].research,
         content |-> IF Len(list[idx].content) > 0 THEN list[idx].content
                     ELSE <<"[Not yet written]">>]]

\* a bug: every section sent to the final writer
SentToFinalWriter_All(s) == TRUE

\* agent.py 362: the sections parallelize_final_section_writing sends
SentToFinalWriter(s) == ~s.research

\* agent.py 301-314, then the conditional edge parallelize_final_section_writing
\* (agent.py 354-363, 409-411)
FormatCompletedSections ==
    /\ pc = "format_completed_sections"
    /\ LET completed_report_sections == FormatSections(completed_sections)
       IN /\ report_sections_from_research' = completed_report_sections
          /\ branch' = [i \in 1..Len(sections) |->
                          IF SentToFinalWriter(sections[i])
                          THEN NewBranch("write_final_sections", completed_report_sections)
                          ELSE branch[i]]
    /\ pc' = IF \E i \in 1..Len(sections) : SentToFinalWriter(sections[i])
             THEN "write_final_sections"
             ELSE "END"
    /\ UNCHANGED <<sections, completed_sections, final_report, report_content, err, planning>>
    /\ UNCHANGED <<escVars, fmtVars, rsVars, appVars>>

\* a bug: the final writer also returns the research context, formatted anew
WriteFinalSections_WritesContext(i) ==
    /\ pc = "write_final_sections"
    /\ branch[i].node = "write_final_sections"
    /\ \E llm_ok \in BOOLEAN, invoke_ok \in BOOLEAN, content \in WrittenContents :
         IF llm_ok /\ invoke_ok
         THEN /\ Written(i, content)
              /\ report_sections_from_research' = FormatSections(completed_sections')
         ELSE /\ Raise("write_final_sections")
              /\ UNCHANGED <<sections, completed_sections, branch,
                             report_sections_from_research>>
    /\ UNCHANGED <<final_report, planning>>
    /\ UNCHANGED <<escVars, fmtVars, rsVars, appVars>>

\* agent.py 319-350: when get_llm() fails the except block only prints, llm is
\* unbound at line 341 and the UnboundLocalError leaves the node
WriteFinalSections(i) ==
    /\ pc = "write_final_sections"
    /\ branch[i].node = "write_final_sections"
    /\ \E llm_ok \in BOOLEAN, invoke_ok \in BOOLEAN, content \in WrittenContents :
         IF llm_ok /\ invoke_ok THEN Written(i, content)
         ELSE /\ Raise("write_final_sections")
              /\ UNCHANGED <<sections, completed_sections, branch>>
    /\ UNCHANGED <<report_sections_from_research, final_report, planning>>
    /\ UNCHANGED <<escVars, fmtVars, rsVars, appVars>>

\* agent.py 412: the edge into compile_final_report
FinalJoin ==
    /\ pc = "write_final_sections"
    /\ AllDone(FALSE)
    /\ pc' = "compile_final_report"
    /\ UNCHANGED <<sections, completed_sections, report_sections_from_research,
                   final_report, branch, report_content, err, planning>>
    /\ UNCHANGED <<escVars, fmtVars, rsVars, appVars>>

\* agent.py 372: the dict comprehension; a later entry of a name replaces an earlier one
HasName(completed, name) == \E k \in 1..Len(completed) : completed[k].name = name

\* a bug: the first entry of a name is kept
CompletedContent_First(completed, name) ==
    LET first == CHOOSE k \in 1..Len(completed) :
                     /\ completed[k].name = name
                     /\ \A j \in 1..(k - 1) : completed[j].name # name
    IN completed[first].content

CompletedContent(completed, name) ==
    LET last == CHOOSE k \in 1..Len(completed) :
                    /\ completed[k].name = name
                    /\ \A j \in (k + 1)..Len(completed) : completed[j].name # name
    IN completed[last].content

\* a bug: a missing name reads as an empty content (dict.get)
Lookup_OrEmpty(completed, name) ==
    [found |-> TRUE,
     content |-> IF HasName(completed, name) THEN CompletedContent(completed, name)
                 ELSE <<>>]

\* agent.py 378: completed_sections[section.name], a KeyError when the name is missing
Lookup(completed, name) ==
    IF HasName(completed, name)
    THEN [found |-> TRUE, content |-> CompletedContent(completed, name)]
    ELSE [found |-> FALSE, content |-> <<>>]

BlankLine == <<"\n", "\n">>

\* a bug: the contents joined in the order the branches completed
JoinSections_Completed(planned, completed) ==
    StrJoin(BlankLine, [k \in 1..Len(completed) |-> completed[k].content])

\* agent.py 377-381: the contents in the order of the plan
JoinSections(planned, completed) ==
    StrJoin(BlankLine, [i \in 1..Len(planned) |-> Lookup(completed, planned[i].name).content])

\* agent.py 367-392, then run_agent's loop takes the final_report event (app.py 1521-1524)
CompileFinalReport ==
    /\ pc = "compile_final_report"
    /\ LET missing == {i \in 1..Len(sections) :
                          ~Lookup(completed_sections, sections[i].name).found}
           stop == IF missing = {} THEN Len(sections) + 1
                   ELSE CHOOSE i \in missing : \A j \in missing : i <= j
       IN /\ sections' = [i \in 1..Len(sections) |->
                            IF i < stop
                            THEN [sections[i] EXCEPT !.content =
                                     Lookup(completed_sections, sections[i].name).content]
                            ELSE sections[i]]
          /\ IF missing = {}
             THEN /\ final_report' = EscapePass(JoinSections(sections, completed_sections))
                  /\ report_content' = final_report'
                  /\ pc' = "END"
                  /\ UNCHANGED err
             ELSE /\ Raise("compile_final_report")
                  /\ UNCHANGED final_report
    /\ UNCHANGED <<completed_sections, report_sections_from_research, branch, planning>>
    /\ UNCHANGED <<escVars, fmtVars, rsVars, appVars>>

-----------------------------------------------------------------------------
(* The calls of the pure functions *)

\* agent.py 383-385
EscapeCall ==
    /\ formatted_sections = NoValue
    /\ all_sections # NoValue
    /\ formatted_sections' = EscapePass(all_sections)
    /\ UNCHANGED all_sections
    /\ UNCHANGED <<wfVars, fmtVars, rsVars, appVars>>

\* The number of sources in a list of responses.
RECURSIVE SourceCount(_)
SourceCount(resps) ==
    IF Len(resps) = 0 THEN 0 ELSE Len(Head(resps).items) + SourceCount(Tail(resps))

\* The caller's list gets one more response before it is formatted (what
\* gather() returned, util.py 73, is what agent.py 130 and 206 pass on).
Respond ==
    /\ formatted_text = NoValue
    /\ search_response.top = "list"
    /\ Len(search_response.resps) < MaxResponses
    /\ \E r \in Responses(MaxItems - SourceCount(search_response.resps)) :
          search_response' = [search_response EXCEPT !.resps = Append(@, r)]
    /\ UNCHANGED <<include_raw_content, formatted_text>>
    /\ UNCHANGED <<wfVars, escVars, rsVars, appVars>>

\* util.py 87-139
FormatCall ==
    /\ formatted_text = NoValue
    /\ search_response.top # "off"
    /\ formatted_text' = FormatSearchQueryResults(search_response, MaxTokens,
                                                  include_raw_content)
    /\ UNCHANGED <<search_response, include_raw_content>>
    /\ UNCHANGED <<wfVars, escVars, rsVars, appVars>>

-----------------------------------------------------------------------------
(* Specifications of the functions on their own *)

WfIdle ==
    /\ pc = "off"
    /\ sections = <<>>
    /\ completed_sections = <<>>
    /\ report_sections_from_research = NoContext
    /\ final_report = NoValue
    /\ branch = <<>>
    /\ report_content = NoValue
    /\ err = None
    /\ planning = Planning("off")

EscIdle == all_sections = NoValue /\ formatted_sections = NoValue

FmtIdle ==
    /\ search_response = [top |-> "off", resps |-> <<>>]
    /\ include_raw_content = FALSE
    /\ formatted_text = NoValue

RsIdle ==
    /\ rs_pc = "off"
    /\ search_queries = <<>>
    /\ tavily = [ok |-> FALSE, outcome |-> <<>>]
    /\ search_tasks = <<>>
    /\ valid_results = NoValue

PollIdle ==
    /\ t_pc = "off"
    /\ t_outcome = None
    /\ t_events = 0
    /\ t_report_content = NoValue
    /\ progress_queue = <<>>
    /\ result_queue = <<>>
    /\ ui_pc = "off"
    /\ ui_report_content = NoValue

\* The sessions of the server: two browser sessions of two different users.
Sessions == {"s1", "s2"}

\* the n-th pair of keys the user of session s typed into the form
Key(s, n) == [session |-> s, n |-> n]
\* st.session_state.openai_api_key = None; the variable missing from os.environ
NoKey == Key(None, 0)
Keys == {Key(s, n) : s \in Sessions, n \in 1..MaxKeyEntries}

NoGen == [state |-> "none", keyless |-> FALSE, signed_out |-> {}, key |-> NoKey]

\* app.py 37-42 and 76-88: a new session is signed out and holds no keys; the
\* process environment holds no key until a session enters one.
KeyIdle ==
    /\ authenticated = [s \in Sessions |-> FALSE]
    /\ api_keys_set = [s \in Sessions |-> FALSE]
    /\ session_api_key = [s \in Sessions |-> NoKey]
    /\ environ_api_key = NoKey
    /\ keys_entered = [s \in Sessions |-> 0]
    /\ signed_out_keys = {}
    /\ script = [s \in Sessions |-> "idle"]
    /\ shown = [s \in Sessions |-> "nothing"]
    /\ gen = [s \in Sessions |-> NoGen]

\* The bucket is empty before the first save_report.
StIdle ==
    /\ bucket = {}
    /\ now = 0
    /\ returned = {}
    /\ st_call = [op |-> None, user |-> None,
                  path |-> [folder |-> None, topic |-> None, ts |-> 0],
                  objects |-> {}, result |-> None]

AppIdle == PollIdle /\ KeyIdle /\ StIdle

InitEscape ==
    /\ all_sections \in Texts
    /\ formatted_sections = NoValue
    /\ WfIdle /\ FmtIdle /\ RsIdle /\ AppIdle

NextEscape == EscapeCall

SpecEscape == InitEscape /\ [][NextEscape]_vars

InitFormat ==
    /\ search_response \in SearchResponses
    /\ include_raw_content \in BOOLEAN
    /\ formatted_text = NoValue
    /\ WfIdle /\ EscIdle /\ RsIdle /\ AppIdle

NextFormat == Respond \/ FormatCall

SpecFormat == InitFormat /\ [][NextFormat]_vars

InitSearch ==
    /\ rs_pc = "get_tavily_search"
    /\ search_queries \in SeqsUpTo(Queries, MaxQueries)
    /\ tavily \in {[ok |-> ok, outcome |-> o] :
                      ok \in BOOLEAN,
                      o \in [1..Len(search_queries) -> Docs \cup {Failed}]}
    /\ search_tasks = <<>>
    /\ valid_results = NoValue
    /\ WfIdle /\ EscIdle /\ FmtIdle /\ AppIdle

NextSearch == RS_GetClient \/ RS_CreateTask \/ RS_Gather

SpecSearch == InitSearch /\ [][NextSearch]_vars

-----------------------------------------------------------------------------
(* The workflow as run_agent starts it, app.py 1479-1533 *)

Init ==
    /\ pc = "generate_report_plan"
    /\ sections = <<>>
    /\ completed_sections = <<>>
    /\ report_sections_from_research = NoContext
    /\ final_report = NoValue
    /\ branch = <<>>
    /\ report_content = <<>>
    /\ err = None
    /\ planning = Planning("get_llm")
    /\ EscIdle /\ FmtIdle /\ RsIdle /\ AppIdle

Next ==
    \/ PlanGetLLM
    \/ PlanInvokeQueries
    \/ PlanRunSearch
    \/ PlanInvokeSections
    \/ PlanExcept
    \/ \E i \in 1..Len(sections) : GenerateQueries(i)
    \/ \E i \in 1..Len(sections) : SearchWeb(i)
    \/ \E i \in 1..Len(sections) : WriteSection(i)
    \/ ResearchJoin
    \/ FormatCompletedSections
    \/ \E i \in 1..Len(sections) : WriteFinalSections(i)
    \/ FinalJoin
    \/ CompileFinalReport

Spec == Init /\ [][Next]_vars

\* Every node that can run does run: the graph runner leaves no task waiting.
FairSpec == Spec /\ WF_vars(Next)

\* compile_final_report given any state, as a test calls it
InitCompile ==
    /\ pc = "compile_final_report"
    /\ sections \in {plan \in Plans : \A i \in 1..Len(plan) : ~plan[i].research}
    /\ completed_sections \in
          SeqsUpTo([name : Names, research : {FALSE}, content : WrittenContents], MaxSections)
    /\ report_sections_from_research = NoContext
    /\ final_report = NoValue
    /\ branch = [i \in 1..Len(sections) |-> NewBranch("done", NoContext)]
    /\ report_content = <<>>
    /\ err = None
    /\ planning = Planning("return_149")
    /\ EscIdle /\ FmtIdle /\ RsIdle /\ AppIdle

NextCompile == CompileFinalReport

SpecCompile == InitCompile /\ [][NextCompile]_vars

-----------------------------------------------------------------------------
(* The report thread and the page that polls it, app.py 1479-1575, 1633-1815 *)

\* Python's truth value of a report: None and "" are false.
Truthy(report) == report # NoValue /\ report # <<>>

\* What compile_final_report can return: the escaped contents of at least two
\* sections (it runs only after a research branch and a final writer), joined
\* by blank lines.
FinalReports ==
    {EscapePass(StrJoin(BlankLine, <<c1, c2>>)) :
        c1 \in WrittenContents \cup {ErrorContent}, c2 \in WrittenContents}

\* How the graph run of a thread ends: with a final_report event, without one
\* (run_agent then returns its initial ""), by an exception, or not at all
\* because an API key is missing.
Outcomes ==
    [kind : {"final_report"}, final_report : FinalReports]
      \cup [kind : {"no_final_report", "exception", "no_key"}, final_report : {NoValue}]

Update(type, value) == [type |-> type, value |-> value]

IsAlive == t_pc # "dead"

\* app.py 1539-1547 and 1489-1502: the keys are looked up
T_CheckKeys ==
    /\ t_pc = "process_report"
    /\ IF t_outcome.kind = "no_key"
       THEN /\ progress_queue' = Append(progress_queue, Update("status", NoValue))
            /\ t_report_content' = NoValue
            /\ t_pc' = "returned"
       ELSE /\ t_pc' = "astream"
            /\ UNCHANGED <<progress_queue, t_report_content>>
    /\ UNCHANGED <<t_outcome, t_events, result_queue, ui_pc, ui_report_content>>
    /\ UNCHANGED <<wfVars, escVars, fmtVars, rsVars, keyVars, stVars>>

\* app.py 1514-1519: a key of an event of the stream, reported as progress
T_Progress ==
    /\ t_pc = "astream"
    /\ t_events < MaxEvents
    /\ t_events' = t_events + 1
    /\ progress_queue' = Append(progress_queue, Update("progress", NoValue))
    /\ UNCHANGED <<t_pc, t_outcome, t_report_content, result_queue, ui_pc, ui_report_content>>
    /\ UNCHANGED <<wfVars, escVars, fmtVars, rsVars, keyVars, stVars>>

\* app.py 1521-1523: the final_report key of the last event
T_FinalReport ==
    /\ t_pc = "astream"
    /\ t_outcome.kind = "final_report"
    /\ t_report_content' = t_outcome.final_report
    /\ progress_queue' = Append(progress_queue, Update("progress", NoValue))
    /\ t_pc' = "put_report"
    /\ UNCHANGED <<t_outcome, t_events, result_queue, ui_pc, ui_report_content>>
    /\ UNCHANGED <<wfVars, escVars, fmtVars, rsVars, keyVars, stVars>>

\* app.py 1524 and 1533
T_PutReport ==
    /\ t_pc = "put_report"
    /\ progress_queue' = Append(progress_queue, Update("report", t_report_content))
    /\ t_pc' = "returned"
    /\ UNCHANGED <<t_outcome, t_events, t_report_content, result_queue, ui_pc,
                   ui_report_content>>
    /\ UNCHANGED <<wfVars, escVars, fmtVars, rsVars, keyVars, stVars>>

\* app.py 1480 and 1533: the stream ends with no final_report
T_StreamEnds ==
    /\ t_pc = "astream"
    /\ t_outcome.kind = "no_final_report"
    /\ t_report_content' = <<>>
    /\ t_pc' = "returned"
    /\ UNCHANGED <<t_outcome, t_events, progress_queue, result_queue, ui_pc,
                   ui_report_content>>
    /\ UNCHANGED <<wfVars, escVars, fmtVars, rsVars, keyVars, stVars>>

\* app.py 1526-1531
T_Exception ==
    /\ t_pc = "astream"
    /\ t_outcome.kind = "exception"
    /\ progress_queue' = Append(progress_queue, Update("status", NoValue))
    /\ t_report_content' = NoValue
    /\ t_pc' = "returned"
    /\ UNCHANGED <<t_outcome, t_events, result_queue, ui_pc, ui_report_content>>
    /\ UNCHANGED <<wfVars, escVars, fmtVars, rsVars, keyVars, stVars>>

\* app.py 1561-1568
T_PutResult ==
    /\ t_pc = "returned"
    /\ result_queue' = IF Truthy(t_report_content)
                       THEN Append(result_queue, t_report_content)
                       ELSE result_queue
    /\ t_pc' = "exit"
    /\ UNCHANGED <<t_outcome, t_events, t_report_content, progress_queue, ui_pc,
                   ui_report_content>>
    /\ UNCHANGED <<wfVars, escVars, fmtVars, rsVars, keyVars, stVars>>

\* process_report has returned and the thread ends
T_Exit ==
    /\ t_pc = "exit"
    /\ t_pc' = "dead"
    /\ UNCHANGED <<t_outcome, t_events, t_report_content, progress_queue, result_queue,
                   ui_pc, ui_report_content>>
    /\ UNCHANGED <<wfVars, escVars, fmtVars, rsVars, keyVars, stVars>>

\* app.py 1655
UI_While ==
    /\ ui_pc = "while"
    /\ ui_pc' = IF IsAlive \/ ~Truthy(ui_report_content) THEN "progress_queue" ELSE "join"
    /\ UNCHANGED <<t_pc, t_outcome, t_events, t_report_content, progress_queue,
                   result_queue, ui_report_content>>
    /\ UNCHANGED <<wfVars, escVars, fmtVars, rsVars, keyVars, stVars>>

\* app.py 1664-1680: one get_nowait() of the inner loop
UI_GetProgress ==
    /\ ui_pc = "progress_queue"
    /\ IF Len(progress_queue) > 0
       THEN /\ progress_queue' = Tail(progress_queue)
            /\ ui_report_content' = IF Head(progress_queue).type = "report"
                                    THEN Head(progress_queue).value
                                    ELSE ui_report_content
            /\ UNCHANGED ui_pc
       ELSE /\ ui_pc' = "result_queue"
            /\ UNCHANGED <<progress_queue, ui_report_content>>
    /\ UNCHANGED <<t_pc, t_outcome, t_events, t_report_content, result_queue>>
    /\ UNCHANGED <<wfVars, escVars, fmtVars, rsVars, keyVars, stVars>>

\* app.py 1706-1714: the backup check, then the sleep
UI_GetResult ==
    /\ ui_pc = "result_queue"
    /\ IF ui_report_content = NoValue /\ Len(result_queue) > 0
       THEN /\ ui_report_content' = Head(result_queue)
            /\ result_queue' = Tail(result_queue)
       ELSE UNCHANGED <<ui_report_content, result_queue>>
    /\ ui_pc' = "thread_check"
    /\ UNCHANGED <<t_pc, t_outcome, t_events, t_report_content, progress_queue>>
    /\ UNCHANGED <<wfVars, escVars, fmtVars, rsVars, keyVars, stVars>>

\* a bug: no way out of the loop for a thread that ended without a result
UI_ThreadCheck_NoBreak ==
    /\ ui_pc = "thread_check"
    /\ IF ~IsAlive /\ ui_report_content = NoValue /\ Len(result_queue) > 0
       THEN /\ ui_report_content' = Head(result_queue)
            /\ result_queue' = Tail(result_queue)
       ELSE UNCHANGED <<ui_report_content, result_queue>>
    /\ ui_pc' = "while"
    /\ UNCHANGED <<t_pc, t_outcome, t_events, t_report_content, progress_queue>>
    /\ UNCHANGED <<wfVars, escVars, fmtVars, rsVars, keyVars, stVars>>

\* a bug: the loop left as soon as no result is there, the thread alive or not
UI_ThreadCheck_NoWait ==
    /\ ui_pc = "thread_check"
    /\ IF ui_report_content = NoValue
       THEN IF Len(result_queue) > 0
            THEN /\ ui_report_content' = Head(result_queue)
                 /\ result_queue' = Tail(result_queue)
                 /\ ui_pc' = "while"
            ELSE /\ ui_pc' = "join"
                 /\ UNCHANGED <<ui_report_content, result_queue>>
       ELSE /\ ui_pc' = "while"
            /\ UNCHANGED <<ui_report_content, result_queue>>
    /\ UNCHANGED <<t_pc, t_outcome, t_events, t_report_content, progress_queue>>
    /\ UNCHANGED <<wfVars, escVars, fmtVars, rsVars, keyVars, stVars>>

\* app.py 1716-1722: the thread is dead, so what get(timeout=0.5) finds is
\* what the queue holds now
UI_ThreadCheck ==
    /\ ui_pc = "thread_check"
    /\ IF ~IsAlive /\ ui_report_content = NoValue
       THEN IF Len(result_queue) > 0
            THEN /\ ui_report_content' = Head(result_queue)
                 /\ result_queue' = Tail(result_queue)
                 /\ ui_pc' = "while"
            ELSE /\ ui_pc' = "join"
                 /\ UNCHANGED <<ui_report_content, result_queue>>
       ELSE /\ ui_pc' = "while"
            /\ UNCHANGED <<ui_report_content, result_queue>>
    /\ UNCHANGED <<t_pc, t_outcome, t_events, t_report_content, progress_queue>>
    /\ UNCHANGED <<wfVars, escVars, fmtVars, rsVars, keyVars, stVars>>

\* app.py 1724-1732, then the branch of line 1735: join(timeout=1.0) returns
\* whether the thread has ended or not
UI_Join ==
    /\ ui_pc = "join"
    /\ IF ui_report_content = NoValue /\ Len(result_queue) > 0
       THEN /\ ui_report_content' = Head(result_queue)
            /\ result_queue' = Tail(result_queue)
       ELSE UNCHANGED <<ui_report_content, result_queue>>
    /\ ui_pc' = IF Truthy(ui_report_content') THEN "show_report" ELSE "show_failure"
    /\ UNCHANGED <<t_pc, t_outcome, t_events, t_report_content, progress_queue>>
    /\ UNCHANGED <<wfVars, escVars, fmtVars, rsVars, keyVars, stVars>>

\* app.py 1633-1652: the queues are made and the thread is started
InitPoll ==
    /\ t_pc = "process_report"
    /\ t_outcome \in Outcomes
    /\ t_events = 0
    /\ t_report_content = NoValue
    /\ progress_queue = <<>>
    /\ result_queue = <<>>
    /\ ui_pc = "while"
    /\ ui_report_content = NoValue
    /\ WfIdle /\ EscIdle /\ FmtIdle /\ RsIdle /\ KeyIdle /\ StIdle

Thread ==
    \/ T_CheckKeys
    \/ T_Progress
    \/ T_FinalReport
    \/ T_PutReport
    \/ T_StreamEnds
    \/ T_Exception
    \/ T_PutResult
    \/ T_Exit

Page ==
    \/ UI_While
    \/ UI_GetProgress
    \/ UI_GetResult
    \/ UI_ThreadCheck
    \/ UI_Join

NextPoll == Thread \/ Page

\* Both the thread and the page script keep running.
SpecPoll == InitPoll /\ [][NextPoll]_vars /\ WF_vars(Thread) /\ WF_vars(Page)

-----------------------------------------------------------------------------
(***************************************************************************)
(* The API keys of the sessions (app.py).  Streamlit runs the script once  *)
(* per interaction of a session, each session in a thread of its own; all  *)
(* of them share os.environ.  The OpenAI key and the Tavily key are        *)
(* entered, stored and cleared together, so one value stands for the pair. *)
(***************************************************************************)
\* app.py 1391, 1450-1451: without keys the script stops before report_form
KeysGate_Open(s) == FALSE

KeysGate(s) == ~api_keys_set[s]

\* app.py 37-49: every script run starts by copying the session's keys, if it
\* holds any, into the process environment
ScriptTop(s) ==
    /\ script[s] = "idle"
    /\ script' = [script EXCEPT ![s] = "body"]
    /\ environ_api_key' = IF session_api_key[s] # NoKey THEN session_api_key[s]
                          ELSE environ_api_key
    /\ UNCHANGED <<authenticated, api_keys_set, session_api_key, keys_entered,
                   signed_out_keys, shown, gen>>
    /\ UNCHANGED <<wfVars, escVars, fmtVars, rsVars, pollVars, stVars>>

\* app.py 1048-1080: a signed-out session is shown the welcome page
Welcome(s) ==
    /\ script[s] = "body"
    /\ ~authenticated[s]
    /\ shown' = [shown EXCEPT ![s] = "welcome"]
    /\ script' = [script EXCEPT ![s] = "idle"]
    /\ UNCHANGED <<authenticated, api_keys_set, session_api_key, environ_api_key,
                   keys_entered, signed_out_keys, gen>>
    /\ UNCHANGED <<wfVars, escVars, fmtVars, rsVars, pollVars, stVars>>

\* app.py 141-182 sign_in, called by the login form
SignIn(s) ==
    /\ script[s] = "body"
    /\ ~authenticated[s]
    /\ authenticated' = [authenticated EXCEPT ![s] = TRUE]
    /\ shown' = [shown EXCEPT ![s] = "nothing"]
    /\ script' = [script EXCEPT ![s] = "idle"]
    /\ UNCHANGED <<api_keys_set, session_api_key, environ_api_key, keys_entered,
                   signed_out_keys, gen>>
    /\ UNCHANGED <<wfVars, escVars, fmtVars, rsVars, pollVars, stVars>>

\* app.py 184-199 sign_out, the on_click callback of the Logout button: it
\* runs before the next script run and clears the session state only
SignOut(s) ==
    /\ script[s] = "idle"
    /\ authenticated[s]
    /\ authenticated' = [authenticated EXCEPT ![s] = FALSE]
    /\ api_keys_set' = [api_keys_set EXCEPT ![s] = FALSE]
    /\ session_api_key' = [session_api_key EXCEPT ![s] = NoKey]
    /\ signed_out_keys' = signed_out_keys \cup
                          {k \in Keys : k.session = s /\ k.n <= keys_entered[s]}
    /\ shown' = [shown EXCEPT ![s] = "nothing"]
    /\ UNCHANGED <<environ_api_key, keys_entered, script, gen>>
    /\ UNCHANGED <<wfVars, escVars, fmtVars, rsVars, pollVars, stVars>>

\* app.py 1391-1451 without a submission: "API Keys Required", st.stop()
KeysRequired(s) ==
    /\ script[s] = "body"
    /\ authenticated[s]
    /\ KeysGate(s)
    /\ shown' = [shown EXCEPT ![s] = "keys_required"]
    /\ script' = [script EXCEPT ![s] = "idle"]
    /\ UNCHANGED <<authenticated, api_keys_set, session_api_key, environ_api_key,
                   keys_entered, signed_out_keys, gen>>
    /\ UNCHANGED <<wfVars, escVars, fmtVars, rsVars, pollVars, stVars>>

\* app.py 1411-1424: the key form is submitted with both keys
SaveKeys(s) ==
    /\ script[s] = "body"
    /\ authenticated[s]
    /\ ~api_keys_set[s]
    /\ keys_entered[s] < MaxKeyEntries
    /\ LET k == Key(s, keys_entered[s] + 1) IN
        /\ environ_api_key' = k
        /\ session_api_key' = [session_api_key EXCEPT ![s] = k]
    /\ keys_entered' = [keys_entered EXCEPT ![s] = @ + 1]
    /\ api_keys_set' = [api_keys_set EXCEPT ![s] = TRUE]
    /\ shown' = [shown EXCEPT ![s] = "nothing"]
    /\ script' = [script EXCEPT ![s] = "idle"]
    /\ UNCHANGED <<authenticated, signed_out_keys, gen>>
    /\ UNCHANGED <<wfVars, escVars, fmtVars, rsVars, pollVars, stVars>>

\* app.py 1107-1109: the "Update API Keys" button
UpdateKeys(s) ==
    /\ script[s] = "body"
    /\ authenticated[s]
    /\ api_keys_set[s]
    /\ api_keys_set' = [api_keys_set EXCEPT ![s] = FALSE]
    /\ shown' = [shown EXCEPT ![s] = "nothing"]
    /\ script' = [script EXCEPT ![s] = "idle"]
    /\ UNCHANGED <<authenticated, session_api_key, environ_api_key, keys_entered,
                   signed_out_keys, gen>>
    /\ UNCHANGED <<wfVars, escVars, fmtVars, rsVars, pollVars, stVars>>

\* app.py 1453-1476: the script run ends with report_form on the page
ReportForm(s) ==
    /\ script[s] = "body"
    /\ authenticated[s]
    /\ ~KeysGate(s)
    /\ shown' = [shown EXCEPT ![s] = "report_form"]
    /\ script' = [script EXCEPT ![s] = "idle"]
    /\ UNCHANGED <<authenticated, api_keys_set, session_api_key, environ_api_key,
                   keys_entered, signed_out_keys, gen>>
    /\ UNCHANGED <<wfVars, escVars, fmtVars, rsVars, pollVars, stVars>>

\* app.py 1601-1652: report_form is submitted.  Keys missing from the
\* environment are restored from the session, or the run stops with an error;
\* otherwise the report thread is started.
Submit(s) ==
    /\ script[s] = "body"
    /\ authenticated[s]
    /\ ~KeysGate(s)
    /\ shown[s] = "report_form"
    /\ gen[s].state # "running"
    /\ script' = [script EXCEPT ![s] = "idle"]
    /\ IF environ_api_key = NoKey /\ session_api_key[s] = NoKey
       THEN /\ shown' = [shown EXCEPT ![s] = "keys_missing"]
            /\ UNCHANGED <<environ_api_key, gen>>
       ELSE /\ environ_api_key' = IF environ_api_key = NoKey THEN session_api_key[s]
                                  ELSE environ_api_key
            /\ gen' = [gen EXCEPT ![s] = [state |-> "running",
                                          keyless |-> session_api_key[s] = NoKey,
                                          signed_out |-> signed_out_keys,
                                          key |-> NoKey]]
            /\ shown' = [shown EXCEPT ![s] = "generating"]
    /\ UNCHANGED <<authenticated, api_keys_set, session_api_key, keys_entered,
                   signed_out_keys>>
    /\ UNCHANGED <<wfVars, escVars, fmtVars, rsVars, pollVars, stVars>>

\* app.py 1537-1547 process_report and 1488-1501 run_agent, then agent.py 74-80
\* get_llm and util.py 24-29 get_tavily_search: the thread fills a missing
\* environment key from the session, gives up if there is none, and the
\* clients it builds read the key from the environment
T_Keys(s) ==
    /\ gen[s].state = "running"
    /\ LET env == IF environ_api_key = NoKey THEN session_api_key[s]
                  ELSE environ_api_key IN
        /\ environ_api_key' = env
        /\ gen' = [gen EXCEPT ![s] = IF env = NoKey THEN [@ EXCEPT !.state = "done"]
                                     ELSE [@ EXCEPT !.key = env]]
    /\ UNCHANGED <<authenticated, api_keys_set, session_api_key, keys_entered,
                   signed_out_keys, script, shown>>
    /\ UNCHANGED <<wfVars, escVars, fmtVars, rsVars, pollVars, stVars>>

\* app.py 1561-1575: the thread ends
T_Done(s) ==
    /\ gen[s].state = "running"
    /\ gen' = [gen EXCEPT ![s].state = "done"]
    /\ UNCHANGED <<authenticated, api_keys_set, session_api_key, environ_api_key,
                   keys_entered, signed_out_keys, script, shown>>
    /\ UNCHANGED <<wfVars, escVars, fmtVars, rsVars, pollVars, stVars>>

InitKeys ==
    /\ KeyIdle
    /\ WfIdle /\ EscIdle /\ FmtIdle /\ RsIdle /\ PollIdle /\ StIdle

NextKeys ==
    \E s \in Sessions :
        \/ ScriptTop(s)
        \/ Welcome(s)
        \/ SignIn(s)
        \/ SignOut(s)
        \/ KeysRequired(s)
        \/ SaveKeys(s)
        \/ UpdateKeys(s)
        \/ ReportForm(s)
        \/ Submit(s)
        \/ T_Keys(s)
        \/ T_Done(s)

SpecKeys == InitKeys /\ [][NextKeys]_vars

-----------------------------------------------------------------------------
(***************************************************************************)
(* The report store (utils/storage.py; app.py 505-722 holds the same       *)
(* functions).  The bucket is a set of objects: a report's content at      *)
(* "<user_id>/<file_name>" and its metadata at the same path followed by   *)
(* ".meta.json".  Each call of the storage client can fail.                *)
(***************************************************************************)
Users == {"u1", "u2"}
Topics == {"t"}

\* storage.py 41-44: file_name = f"{safe_topic}_{ts}.md", file_path = user folder + file_name
FileName(topic, ts) == [folder |-> None, topic |-> topic, ts |-> ts]
NoPath == FileName(None, 0)

\* the filename arguments: a file name, or a text with a "/" in it
FileNames == {FileName(topic, ts) : topic \in Topics, ts \in 0..MaxClock}
SlashNames == {[f EXCEPT !.folder = u] : f \in FileNames, u \in Users}

\* storage.py 157-160 and 198-201: a filename with a "/" is taken as the path
FilePath(user_id, filename) ==
    IF filename.folder # None THEN filename
    ELSE [filename EXCEPT !.folder = user_id]

Content(path) == [path |-> path, meta |-> FALSE]
\* storage.py 83 and 203: metadata_path = file_path + ".meta.json"
Metadata(path) == [path |-> path, meta |-> TRUE]

\* a call: its arguments, the path it made of them, the objects it uploaded,
\* downloaded or removed, and what it returned
Call(op, user_id, path, objects, result) ==
    [op |-> op, user |-> user_id, path |-> path, objects |-> objects, result |-> result]

\* storage.py 117-146: one entry per ".meta.json" object of the user's folder,
\* with the file name its metadata holds
LoadSavedReports(user_id) ==
    {[o.path EXCEPT !.folder = None] : o \in {x \in bucket : x.meta /\ x.path.folder = user_id}}

\* The clock moves on between calls.
Tick ==
    /\ now < MaxClock
    /\ now' = now + 1
    /\ UNCHANGED <<bucket, returned, st_call>>
    /\ UNCHANGED <<wfVars, escVars, fmtVars, rsVars, pollVars, keyVars>>

\* storage.py 35-110: the content is uploaded (a second attempt from a
\* temporary file follows a failed first one), then the metadata in the same
\* way; an attempt that fails twice leaves by the outer except, which
\* returns None and removes nothing
SaveReport(user_id, topic) ==
    /\ \E content_ok \in BOOLEAN, meta_ok \in BOOLEAN :
         LET file_path == FilePath(user_id, FileName(topic, now)) IN
           IF ~content_ok
           THEN /\ st_call' = Call("save", user_id, file_path, {}, "None")
                /\ UNCHANGED <<bucket, returned>>
           ELSE IF ~meta_ok
           THEN /\ bucket' = bucket \cup {Content(file_path)}
                /\ st_call' = Call("save", user_id, file_path, {Content(file_path)}, "None")
                /\ UNCHANGED returned
           ELSE /\ bucket' = bucket \cup {Content(file_path), Metadata(file_path)}
                /\ returned' = returned \cup {file_path}
                /\ st_call' = Call("save", user_id, file_path,
                                   {Content(file_path), Metadata(file_path)}, "path")
    /\ UNCHANGED now
    /\ UNCHANGED <<wfVars, escVars, fmtVars, rsVars, pollVars, keyVars>>

\* storage.py 153-192: the download of file_path, None when it raises
GetReportContent(user_id, filename) ==
    /\ LET file_path == FilePath(user_id, filename) IN
         st_call' = IF Content(file_path) \in bucket
                    THEN Call("get", user_id, file_path, {Content(file_path)}, "content")
                    ELSE Call("get", user_id, file_path, {}, "None")
    /\ UNCHANGED <<bucket, now, returned>>
    /\ UNCHANGED <<wfVars, escVars, fmtVars, rsVars, pollVars, keyVars>>

\* storage.py 194-221: the content is removed, then the metadata; a failure
\* to remove the metadata is only printed and True is returned
DeleteReport(user_id, filename) ==
    /\ \E remove_ok \in BOOLEAN, meta_ok \in BOOLEAN :
         LET file_path == FilePath(user_id, filename) IN
           IF ~remove_ok
           THEN /\ st_call' = Call("delete", user_id, file_path, {}, "False")
                /\ UNCHANGED <<bucket, returned>>
           ELSE /\ bucket' = (bucket \ {Content(file_path)})
                                \ (IF meta_ok THEN {Metadata(file_path)} ELSE {})
                /\ returned' = returned \ {file_path}
                /\ st_call' = Call("delete", user_id, file_path, bucket \ bucket', "True")
    /\ UNCHANGED now
    /\ UNCHANGED <<wfVars, escVars, fmtVars, rsVars, pollVars, keyVars>>

InitStore ==
    /\ StIdle
    /\ WfIdle /\ EscIdle /\ FmtIdle /\ RsIdle /\ PollIdle /\ KeyIdle

\* app.py 1144-1183, 1235-1244, 1760: the page saves a finished report, and
\* views or deletes an entry of the list, by the file name the entry holds
NextStore ==
    \/ Tick
    \/ \E u \in Users, topic \in Topics : SaveReport(u, topic)
    \/ \E u \in Users : \E f \in LoadSavedReports(u) : GetReportContent(u, f)
    \/ \E u \in Users : \E f \in LoadSavedReports(u) : DeleteReport(u, f)

SpecStore == InitStore /\ [][NextStore]_vars

\* The functions called with any filename.
NextStoreAnyName ==
    \/ Tick
    \/ \E u \in Users, topic \in Topics : SaveReport(u, topic)
    \/ \E u \in Users, f \in FileNames \cup SlashNames : GetReportContent(u, f)
    \/ \E u \in Users, f \in FileNames \cup SlashNames : DeleteReport(u, f)

SpecStoreAnyName == InitStore /\ [][NextStoreAnyName]_vars

-----------------------------------------------------------------------------
(* Properties of the workflow *)

Ended == pc \in {"END", "ERROR"}

UniqueNames(list) ==
    \A i, j \in 1..Len(list) : i # j => list[i].name # list[j].name

\* The contents the writers gave the planned sections, in the order of the plan.
PlannedOrderText(list) ==
    EscapePass(StrJoin(BlankLine, [i \in 1..Len(list) |-> list[i].content]))

\* C1 as stated: whatever the plan and the order in which the branches
\* appended, compile_final_report's report is the contents of the planned
\* sections in the order of the plan, joined by blank lines.
C1_PlannedOrderAnyPlan ==
    [][(pc = "compile_final_report" /\ pc' = "END")
          => final_report' = PlannedOrderText(sections)]_vars

\* C1 amended: when the names of the planned sections are pairwise distinct,
\* compile_final_report's report is the contents of the planned sections in
\* the order of the plan, joined by blank lines, whatever the order in which
\* the branches appended.
C1_PlannedOrder ==
    [][(pc = "compile_final_report" /\ pc' = "END" /\ UniqueNames(sections))
          => final_report' = PlannedOrderText(sections)]_vars

\* Two research sections of different content, completed in the reverse of
\* the planned order, and compiled.
C1_Witness ==
    /\ pc = "END"
    /\ final_report # NoValue
    /\ Len(sections) = 3
    /\ UniqueNames(sections)
    /\ sections[1].research /\ sections[2].research /\ ~sections[3].research
    /\ completed_sections[1].name = sections[2].name
    /\ completed_sections[2].name = sections[1].name
    /\ sections[1].content # sections[2].content

\* C2: when compile_final_report has run on a state in which the name of a
\* planned section is in no entry of completed_sections, it ended in an error
\* and there is no final report.
C2_MissingSectionRaises ==
    (/\ Ended
     /\ \E i \in 1..Len(sections) :
           \A k \in 1..Len(completed_sections) :
              completed_sections[k].name # sections[i].name)
      => /\ pc = "ERROR"
         /\ err = "compile_final_report"
         /\ final_report = NoValue
         /\ report_content = NoValue

\* The first planned section was completed, the second was not.
C2_Witness ==
    /\ pc = "ERROR"
    /\ Len(sections) = 2
    /\ Len(completed_sections) = 1
    /\ completed_sections[1].name = sections[1].name
    /\ sections[2].name # sections[1].name

\* C3: every run that has ended has ended at END with a report returned,
\* whatever failed on the way.
C3_EveryRunReturnsAReport ==
    Ended => (pc = "END" /\ report_content # NoValue)

\* C4: the only exception that ends a run is the one of compile_final_report's
\* lookup; a failure inside a section's branch ends neither the run nor the
\* other branches.
C4_OnlyCompileEndsTheRun ==
    pc = "ERROR" => err = "compile_final_report"

\* generate_report_plan returns in this step.
PlanningReturns == pc = "generate_report_plan" /\ pc' # "generate_report_plan"

\* The run ends as planning returns, with no section, no exception and the
\* empty string as report.
EmptyRun == sections = <<>> /\ pc = "END" /\ err = None /\ report_content = <<>>

\* Fewer results than queries: a search, or the search client, failed.
PlanningSearchFailed ==
    /\ planning.at = "invoke_sections"
    /\ Len(planning.query_list) > 0
    /\ planning.search_context = <<"No search results available.">>

\* C5 as stated: when get_llm(), a structured call or a search failed during
\* planning, the plan is empty, no exception reaches the caller and the run
\* ends returning the empty string.
C5_AnyPlanningFaultEmptiesThePlan ==
    [][(PlanningReturns
          /\ (planning.at \in {"except_get_llm", "except"} \/ PlanningSearchFailed))
        => EmptyRun']_vars

\* C5 amended: when get_llm() or a structured LLM call failed during planning,
\* the plan is empty, no exception reaches the caller and the run ends
\* returning the empty string (a failed search alone is absorbed by
\* run_search_queries and planning goes on).
C5_LLMFaultEmptiesThePlan ==
    [][(PlanningReturns /\ planning.at \in {"except_get_llm", "except"})
          => EmptyRun']_vars

\* The second structured call failed after the searches, and the run ended.
C5_Witness ==
    /\ planning.at = "return_153"
    /\ EmptyRun

-----------------------------------------------------------------------------
(* Properties of the escaping pass *)

MarkerFree(s) == \A i \in 1..Len(s) : s[i] # Marker

\* s with one backslash put before every '$' that no backslash precedes
RECURSIVE BackslashBeforeBare(_, _)
BackslashBeforeBare(s, i) ==
    IF i > Len(s) THEN <<>>
    ELSE (IF s[i] = Dollar /\ (i = 1 \/ s[i - 1] # Backslash)
          THEN <<Backslash, Dollar>>
          ELSE <<s[i]>>) \o BackslashBeforeBare(s, i + 1)

\* C6: after the escaping pass every '$' follows a backslash, and for a text
\* of '$', backslashes and ordinary characters the result is the text with
\* exactly one backslash added before each '$' that had none, the others
\* unchanged.
C6_EscapedExactlyOnce ==
    formatted_sections # NoValue
      => /\ \A i \in 1..Len(formatted_sections) :
               formatted_sections[i] = Dollar
                 => (i > 1 /\ formatted_sections[i - 1] = Backslash)
         /\ MarkerFree(all_sections)
              => formatted_sections = BackslashBeforeBare(all_sections, 1)

\* The example of the spec: an escaped '$' and a bare one.
C6_Witness ==
    /\ all_sections = <<Backslash, Dollar, "a", Dollar>>
    /\ formatted_sections = <<Backslash, Dollar, "a", Backslash, Dollar>>

-----------------------------------------------------------------------------
(* Properties of format_search_query_results *)

\* The sources of a batch, as the provider listed them.
BatchItems(sr) == Concat([i \in 1..Len(sr.resps) |-> sr.resps[i].items])

HasUrl(source) == source.isdict /\ source.url # None

\* Is flat[i] a source whose URL an earlier source has?
Duplicate(flat, i) ==
    HasUrl(flat[i]) /\ \E j \in 1..(i - 1) : HasUrl(flat[j]) /\ flat[j].url = flat[i].url

RECURSIVE WithoutDuplicates(_, _)
WithoutDuplicates(flat, i) ==
    IF i > Len(flat) THEN <<>>
    ELSE (IF Duplicate(flat, i) THEN <<>> ELSE <<flat[i]>>) \o WithoutDuplicates(flat, i + 1)

Doubled(sr) == [top |-> "list", resps |-> sr.resps \o sr.resps]

Deduplicated(sr) ==
    [top |-> "list",
     resps |-> <<[shape |-> "list", items |-> WithoutDuplicates(BatchItems(sr), 1)]>>]

\* C7: formatting a batch followed by itself gives the text that formatting
\* the batch without its duplicate URLs gives.
C7_DedupIdempotent ==
    (search_response.top = "list" /\ formatted_text # NoValue)
      => FormatSearchQueryResults(Doubled(search_response), MaxTokens, include_raw_content)
           = FormatSearchQueryResults(Deduplicated(search_response), MaxTokens,
                                      include_raw_content)

\* A batch of two responses that hold the same URL under different titles.
C7_Witness ==
    /\ search_response.top = "list"
    /\ Len(search_response.resps) = 2
    /\ formatted_text # NoValue
    /\ LET flat == BatchItems(search_response)
       IN /\ Len(flat) = 2
          /\ HasUrl(flat[1])
          /\ flat[2].url = flat[1].url
          /\ flat[2].title # flat[1].title

\* C8: the text has one block per distinct URL of the flattened list, in the
\* order in which the URLs first appear, each with the title and content of
\* the first source of its URL.
C8_FirstOccurrenceWins ==
    (formatted_text # NoValue /\ formatted_text # NoResultsText)
      => LET flat == BatchItems(search_response)
             blocks == Tail(formatted_text)
             First(u) == CHOOSE i \in 1..Len(flat) :
                            HasUrl(flat[i]) /\ flat[i].url = u /\ ~Duplicate(flat, i)
         IN /\ \A i, j \in 1..Len(blocks) : i # j => blocks[i].url # blocks[j].url
            /\ {blocks[i].url : i \in 1..Len(blocks)}
                 = {flat[i].url : i \in {k \in 1..Len(flat) : HasUrl(flat[k])}}
            /\ \A i, j \in 1..Len(blocks) :
                  i < j => First(blocks[i].url) < First(blocks[j].url)
            /\ \A i \in 1..Len(blocks) :
                  LET source == flat[First(blocks[i].url)]
                  IN /\ blocks[i].title =
                          (IF source.title = None THEN "Untitled" ELSE source.title)
                     /\ blocks[i].content =
                          (IF source.content = None THEN "No content available"
                           ELSE source.content)

\* Two URLs, the first of them given twice with different titles, formatted
\* into two blocks.
C8_Witness ==
    /\ formatted_text # NoValue
    /\ Len(formatted_text) = 3
    /\ LET flat == BatchItems(search_response)
       IN /\ Len(flat) = 3
          /\ HasUrl(flat[1]) /\ HasUrl(flat[2]) /\ HasUrl(flat[3])
          /\ flat[1].url = flat[3].url
          /\ flat[1].title # flat[3].title
          /\ flat[2].url # flat[1].url

\* No response of the argument holds a source.
NoSourceGiven(sr) ==
    \/ sr.top = "other"
    \/ \A i \in 1..Len(sr.resps) :
          \/ sr.resps[i].shape = "other"
          \/ sr.resps[i].shape \in {"results", "list"} /\ Len(sr.resps[i].items) = 0

\* C9: given no source (an empty argument, empty result lists or responses of
\* another shape), format_search_query_results returns the text "No search
\* results found."
C9_NoResultsLiteral ==
    (formatted_text # NoValue /\ NoSourceGiven(search_response))
      => formatted_text = <<"No search results found.">>

\* A response of another shape and an empty result list.
C9_Witness ==
    /\ formatted_text = <<"No search results found.">>
    /\ search_response.top = "list"
    /\ Len(search_response.resps) = 2
    /\ search_response.resps[1].shape = "other"
    /\ search_response.resps[2].shape = "results"

-----------------------------------------------------------------------------
(* Properties of run_search_queries *)

\* C10: run_search_queries ends by returning, never by raising; it returns the
\* results of the searches that succeeded, in the order of the queries, and
\* the empty list when the client cannot be built or no query is given.
C10_SucceededInQueryOrder ==
    /\ rs_pc \in {"get_tavily_search", "for", "returned"}
    /\ rs_pc = "returned"
         => LET n == Len(search_queries)
                Succeeded(i) == tavily.outcome[i] # Failed
                Rank(i) == Cardinality({j \in 1..i : Succeeded(j)})
            IN IF ~tavily.ok \/ n = 0 THEN valid_results = <<>>
               ELSE /\ Len(valid_results) = Cardinality({i \in 1..n : Succeeded(i)})
                    /\ \A i \in 1..n :
                          Succeeded(i) => valid_results[Rank(i)] = tavily.outcome[i]

\* Three queries, the first search failed and the two others returned
\* different results.
C10_Witness ==
    /\ rs_pc = "returned"
    /\ tavily.ok
    /\ Len(search_queries) = 3
    /\ tavily.outcome[1] = Failed
    /\ tavily.outcome[2] = "docs1"
    /\ tavily.outcome[3] = "docs2"
    /\ Len(valid_results) = 2

-----------------------------------------------------------------------------
(* Properties of the fan-out stages *)

Research == {i \in 1..Len(sections) : sections[i].research}
NonResearch == {i \in 1..Len(sections) : ~sections[i].research}

\* The entries of a list that carry a name.
Entries(list, name) == {k \in 1..Len(list) : list[k].name = name}

\* Does completed hold as many entries of each name as the planned sections
\* in the set of positions idx?
OneEntryEach(completed, idx) ==
    /\ Len(completed) = Cardinality(idx)
    /\ \A i \in idx :
          Cardinality(Entries(completed, sections[i].name))
            = Cardinality({j \in idx : sections[j].name = sections[i].name})

\* The branch of section i ends in this step.
BranchEnds(i) == branch[i].node # "done" /\ branch'[i].node = "done"

\* A final-section writer has been started or has ended.
FinalWriterStarted ==
    \E i \in NonResearch : branch[i].node \in {"write_final_sections", "done"}

\* C11: the step that derives report_sections_from_research is taken only when
\* the branch of every research section has ended and has appended its section
\* to completed_sections, and a final-section writer is started only once that
\* step has been taken, whatever the order in which the research branches ran.
C11_ResearchJoinIsABarrier ==
    /\ [][(report_sections_from_research' # report_sections_from_research)
            => /\ \A i \in Research : branch[i].node = "done"
               /\ OneEntryEach(completed_sections, Research)
               /\ ~FinalWriterStarted]_vars
    /\ [](FinalWriterStarted
            => /\ report_sections_from_research # NoContext
               /\ \A i \in Research : branch[i].node = "done")

\* Two research sections that ended in the reverse of the planned order while
\* both were under way, the context derived and the final writer started.
C11_Witness ==
    /\ pc = "write_final_sections"
    /\ Len(sections) = 3
    /\ sections[1].research /\ sections[2].research /\ ~sections[3].research
    /\ sections[1].name # sections[2].name
    /\ Len(completed_sections) = 2
    /\ completed_sections[1].name = sections[2].name
    /\ Len(report_sections_from_research) = 2
    /\ branch[3].node = "write_final_sections"

\* C12: the step in which a branch ends appends one entry to
\* completed_sections, that of the branch's section, and when
\* compile_final_report starts completed_sections holds one entry per planned
\* section: as many entries as the plan has sections.
C12_OneEntryPerSection ==
    /\ [][\A i \in 1..Len(sections) :
             (pc # "generate_report_plan" /\ BranchEnds(i))
               => /\ Len(completed_sections') = Len(completed_sections) + 1
                  /\ completed_sections'[Len(completed_sections')].name = sections[i].name]_vars
    /\ [](pc = "compile_final_report"
            => /\ Len(completed_sections) = Len(sections)
               /\ OneEntryEach(completed_sections, 1..Len(sections)))

\* The example plan, its four sections written, at the start of
\* compile_final_report.
C12_Witness ==
    /\ pc = "compile_final_report"
    /\ Len(sections) = 4
    /\ Len(completed_sections) = 4
    /\ Cardinality(Research) = 2

\* The step about to be taken from this state by section i's branch is the
\* last one of the writer stage its research flag chooses.
ByItsWriter(i) ==
    IF sections[i].research
    THEN pc = "section_builder_with_web_search" /\ branch[i].node = "write_section"
    ELSE pc = "write_final_sections" /\ branch[i].node = "write_final_sections"

\* A section is written by the stage its research flag chooses, and by no
\* stage again once it has been written.
OneWriterStage(i) ==
    /\ BranchEnds(i) => ByItsWriter(i)
    /\ branch[i].node = "done" => branch'[i].node = "done"

AtNode(i, node) == pc = "section_builder_with_web_search" /\ branch[i].node = node

\* C14: whatever fails in generate_queries (get_llm() or the structured call),
\* the node returns and the branch goes on to search_web, with no query when
\* it failed, and the failure does not end the run.
C14_QueryFailureAbsorbed ==
    /\ [][\A i \in 1..Len(sections) :
             (AtNode(i, "generate_queries") /\ branch'[i].node # "generate_queries")
               => /\ branch'[i].node = "search_web"
                  /\ branch'[i].search_queries \in QueryLists]_vars
    /\ [](err # "generate_queries")

\* C15: whatever fails in write_section (get_llm() or the completion call),
\* the node returns its section, which is appended to completed_sections with
\* the written content or the fixed error text, and the failure does not end
\* the run.
C15_WriteFailureGivesPlaceholder ==
    /\ [][\A i \in 1..Len(sections) :
             (AtNode(i, "write_section") /\ BranchEnds(i))
               => LET last == completed_sections'[Len(completed_sections')]
                  IN /\ Len(completed_sections') = Len(completed_sections) + 1
                     /\ last.name = sections[i].name
                     /\ last.content \in WrittenContents \cup {ErrorContent}]_vars
    /\ [](err # "write_section")

C17_PlanFixedAfterPlanning ==
    [][pc # "generate_report_plan"
         => /\ Len(sections') = Len(sections)
            /\ \A i \in 1..Len(sections) :
                  /\ sections'[i].name = sections[i].name
                  /\ sections'[i].research = sections[i].research]_vars

\* The example plan after both fan-outs and compile_final_report, a content
\* written into its last section.
C17_Witness ==
    /\ pc = "END"
    /\ final_report # NoValue
    /\ [i \in 1..Len(sections) |-> [sections[i] EXCEPT !.content = <<>>]] = ExamplePlan
    /\ sections[4].content = <<Dollar>>

\* C18: every entry of completed_sections has the name of a planned section.
C18_CompletedNamesArePlanned ==
    \A k \in 1..Len(completed_sections) :
       \E i \in 1..Len(sections) : sections[i].name = completed_sections[k].name

\* An entry of the research writer, made after get_llm() failed, and one of
\* the final writer, under the two names of the plan.
C18_Witness ==
    /\ pc = "compile_final_report"
    /\ Len(sections) = 2
    /\ sections[1].name = "A" /\ sections[2].name = "B"
    /\ Len(completed_sections) = 2
    /\ completed_sections[1].name = "A" /\ completed_sections[1].content = ErrorContent
    /\ completed_sections[2].name = "B"

\* What a block of the research context shows for a content.
Shown(content) == IF content = <<>> THEN <<"[Not yet written]">> ELSE content

\* C19: the research context derived by format_completed_sections has one
\* block for each research section and none for a section without research
\* (two blocks for the plan of an introduction, two research sections and a
\* conclusion); the blocks are numbered from 1 and each shows the content its
\* section was given, or '[Not yet written]' when that content is empty.
C19_OneBlockPerResearchSection ==
    report_sections_from_research # NoContext
      => LET blocks == report_sections_from_research
         IN /\ OneEntryEach(blocks, Research)
            /\ \A k \in 1..Len(blocks) :
                  /\ blocks[k].idx = k
                  /\ blocks[k].research
                  /\ \E i \in Research : sections[i].name = blocks[k].name
                  /\ blocks[k].name = completed_sections[k].name
                  /\ blocks[k].content = Shown(completed_sections[k].content)
            /\ (Len(sections) = 4 /\ Research = {2, 3}) => Len(blocks) = 2

\* The example plan: the context holds the blocks of its two research
\* sections, one written with a content and one with the empty text.
C19_Witness ==
    /\ pc = "write_final_sections"
    /\ Len(sections) = 4
    /\ Research = {2, 3}
    /\ Len(report_sections_from_research) = 2
    /\ report_sections_from_research[1].name = "C"
    /\ report_sections_from_research[1].content = <<"[Not yet written]">>
    /\ report_sections_from_research[2].name = "B"
    /\ report_sections_from_research[2].content = <<Dollar>>

\* The order of the nodes of the research sub-workflow, agent.py 259-262.
NodeRank(node) ==
    CASE node = "generate_queries" -> 1
      [] node = "search_web" -> 2
      [] node = "write_section" -> 3
      [] node = "done" -> 4
      [] OTHER -> 0

\* The order of the calls of generate_report_plan, agent.py 89-153.
PlanRank(at) ==
    CASE at = "get_llm" -> 1
      [] at = "invoke_queries" -> 2
      [] at = "run_search_queries" -> 3
      [] at = "invoke_sections" -> 4
      [] at \in {"except_get_llm", "except"} -> 5
      [] OTHER -> 6

\* C20: the branch of a research section goes from generate_queries to
\* search_web to write_section and ends, one node after the other, none left
\* out and none run again; planning makes its calls in order, none again; and
\* once a call has failed and ended the run, nothing runs any more.
C20_EachNodeOnceInOrder ==
    [][/\ \A i \in 1..Len(sections) :
             (pc # "generate_report_plan" /\ sections[i].research
                /\ branch'[i].node # branch[i].node)
               => /\ AtNode(i, branch[i].node)
                  /\ NodeRank(branch[i].node) >= 1
                  /\ NodeRank(branch'[i].node) = NodeRank(branch[i].node) + 1
       /\ planning'.at # planning.at => PlanRank(planning'.at) > PlanRank(planning.at)
       /\ pc # "ERROR"]_vars

\* A branch whose two searches failed goes on to write_section with no
\* result, while the branch of another section has not yet run.
C20_Witness ==
    /\ pc = "section_builder_with_web_search"
    /\ Len(sections) = 2
    /\ sections[1].research /\ sections[2].research
    /\ branch[1].node = "write_section"
    /\ Len(branch[1].search_queries) = 2
    /\ branch[1].source_str = NoResultsText
    /\ branch[2].node = "generate_queries"

-----------------------------------------------------------------------------
(* Properties of the polling loop *)

LoopLeft == ui_pc \in {"join", "show_report", "show_failure"}

\* C21: whatever the outcome of the thread (a final report, the empty string
\* returned by run_agent when the run gave no final report, or no report after
\* an exception or a missing key), the page leaves its polling loop, and only
\* once the thread has ended; without a final report it goes on to its failure
\* message.
C21_PollingLoopEnds ==
    /\ <>(ui_pc \in {"show_report", "show_failure"})
    /\ [](LoopLeft => ~IsAlive)
    /\ []((ui_pc \in {"show_report", "show_failure"} /\ t_outcome.kind # "final_report")
            => ui_pc = "show_failure")

\* run_agent returned "" after two progress updates, and the page went on to
\* its failure message.
C21_Witness ==
    /\ ui_pc = "show_failure"
    /\ t_outcome.kind = "no_final_report"
    /\ t_report_content = <<>>
    /\ t_events = 2
    /\ t_pc = "dead"

\* C25: when the run gives a final report, the page leaves its polling loop
\* holding that report and no other value, however the thread's puts and its
\* end fall between the reads of the page.
C25_ReportNeverLost ==
    (t_outcome.kind = "final_report" /\ ui_pc \in {"show_report", "show_failure"})
      => /\ ui_pc = "show_report"
         /\ ui_report_content = t_outcome.final_report

\* The page took the report from result_queue, before it read the update on
\* progress_queue that carries the same report.
C25_Witness ==
    /\ ui_pc = "show_report"
    /\ ui_report_content = t_outcome.final_report
    /\ result_queue = <<>>
    /\ Len(progress_queue) > 0
    /\ progress_queue[Len(progress_queue)].type = "report"

-----------------------------------------------------------------------------
(***************************************************************************)
(* Properties of the API keys                                              *)
(***************************************************************************)
\* C22: once a user has signed out, no session state holds a key that user
\* entered, and a report thread that is started afterwards by a session
\* holding no keys of its own never gets such a key from the environment.
C22_SignedOutKeysNotObtained ==
    \A s \in Sessions :
        /\ session_api_key[s] \notin signed_out_keys
        /\ (gen[s].state # "none" /\ gen[s].keyless) => gen[s].key \notin gen[s].signed_out

\* A user entered keys and signed out; the environment still holds those keys;
\* the same session signed in again without entering keys, and its script
\* run stopped at "API Keys Required".
C22_Witness ==
    \E s \in Sessions :
        /\ environ_api_key \in signed_out_keys
        /\ environ_api_key.session = s
        /\ authenticated[s]
        /\ session_api_key[s] = NoKey
        /\ script[s] = "idle"
        /\ shown[s] = "keys_required"

-----------------------------------------------------------------------------
(***************************************************************************)
(* Properties of the escaping pass as a relation between texts             *)
(***************************************************************************)
\* out with the backslashes deleted that stand before a '$' which is bare in
\* the text `in` (position j of `in` is met at position i of `out`)
RECURSIVE DeleteInserted(_, _, _, _)
DeleteInserted(out, i, in, j) ==
    IF i > Len(out) THEN <<>>
    ELSE IF /\ out[i] = Backslash
            /\ i < Len(out) /\ out[i + 1] = Dollar
            /\ j <= Len(in) /\ in[j] = Dollar
         THEN DeleteInserted(out, i + 1, in, j)
         ELSE <<out[i]>> \o DeleteInserted(out, i + 1, in, j + 1)

\* C27 as stated: for every text, also one that contains the marker text,
\* deleting the backslashes the pass inserted gives back the text, and a
\* second pass changes nothing.
C27_InsertOnlyAnyText ==
    formatted_sections # NoValue
      => /\ DeleteInserted(formatted_sections, 1, all_sections, 1) = all_sections
         /\ EscapePass(formatted_sections) = formatted_sections

\* C27 amended: for every text that does not contain the marker text,
\* deleting the backslashes the pass inserted gives back the text; and for
\* every text a second pass changes nothing.
C27_InsertOnly ==
    formatted_sections # NoValue
      => /\ MarkerFree(all_sections)
              => DeleteInserted(formatted_sections, 1, all_sections, 1) = all_sections
         /\ EscapePass(formatted_sections) = formatted_sections

\* A text with two bare '$' and no marker: the pass made it longer by two.
C27_Witness ==
    /\ formatted_sections # NoValue
    /\ MarkerFree(all_sections)
    /\ Len(formatted_sections) = Len(all_sections) + 2
    /\ EscapePass(formatted_sections) = formatted_sections

\* the URLs of the sources given
UrlsGiven(sr) == {BatchItems(sr)[i].url : i \in {k \in 1..Len(BatchItems(sr)) :
                                                    HasUrl(BatchItems(sr)[k])}}

\* C28 as stated: a result of format_search_query_results other than the
\* literal "No search results found." is the header followed by at least one
\* source block; sources that all lack a URL, or are not dicts, give the
\* literal.
C28_HeaderHasASourceAnyList ==
    (formatted_text # NoValue /\ formatted_text # NoResultsText)
        => /\ Len(formatted_text) >= 2
           /\ UrlsGiven(search_response) # {}

\* C28 amended: a result other than the literal is the header followed by
\* one block per different URL among the sources given, so it has a source
\* block exactly when a source has a URL; sources that all lack a URL, or
\* are not dicts, give the header alone.
C28_HeaderHasASource ==
    (formatted_text # NoValue /\ formatted_text # NoResultsText)
        => /\ Len(BatchItems(search_response)) >= 1
           /\ formatted_text[1] = Header
           /\ Len(formatted_text) = 1 + Cardinality(UrlsGiven(search_response))
           /\ \A i \in 2..Len(formatted_text) :
                  formatted_text[i].url \in UrlsGiven(search_response)

\* A source without a URL and a source with one: the header and one block.
C28_Witness ==
    /\ formatted_text # NoValue
    /\ Len(formatted_text) = 2
    /\ \E i \in 1..Len(BatchItems(search_response)) :
          ~HasUrl(BatchItems(search_response)[i])

-----------------------------------------------------------------------------
(***************************************************************************)
(* Properties of compile_final_report and of the run as a whole            *)
(***************************************************************************)
SameName(i, j) == i # j /\ sections[i].name = sections[j].name

\* the entry of this name that was appended last
LastEntry(completed, name) ==
    CHOOSE k \in Entries(completed, name) : \A j \in Entries(completed, name) : j <= k

\* C23: when two planned sections have the same name, compile_final_report
\* does not fail, and both planned positions get the content of the entry of
\* that name appended last to completed_sections.
C23_DuplicateNameLastWins ==
    [][(pc = "compile_final_report" /\ pc' # pc
            /\ \E i, j \in 1..Len(sections) : SameName(i, j))
          => /\ pc' = "END"
             /\ \A i, j \in 1..Len(sections) :
                    SameName(i, j) =>
                       /\ sections'[i].content = sections'[j].content
                       /\ sections'[i].content =
                             completed_sections[LastEntry(completed_sections,
                                                          sections[i].name)].content]_vars

\* Two planned sections of one name whose writers wrote different contents,
\* compiled: both hold the content appended last, the other content is lost.
C23_Witness ==
    /\ pc = "END"
    /\ final_report # NoValue
    /\ \E i, j \in 1..Len(sections) :
          /\ SameName(i, j)
          /\ sections[i].content = sections[j].content
          /\ \E k \in Entries(completed_sections, sections[i].name) :
                completed_sections[k].content # sections[i].content

C26_NonEmptyPlanIsCompiled ==
    (pc = "END" /\ Len(sections) >= 1)
        => /\ final_report # NoValue
           /\ UniqueNames(sections) => final_report = PlannedOrderText(sections)

-----------------------------------------------------------------------------
(***************************************************************************)
(* Properties of the report store                                          *)
(***************************************************************************)
\* C29: after any save_report and delete_report calls, whichever uploads
\* and removals failed, every entry load_saved_reports returns for a user
\* names a report whose content is in the user's folder, and every path
\* save_report returned is listed until delete_report returned True for it.
C29_ListedIffStored ==
    \A u \in Users :
        /\ \A f \in LoadSavedReports(u) : Content(FilePath(u, f)) \in bucket
        /\ \A p \in returned :
              p.folder = u => [p EXCEPT !.folder = None] \in LoadSavedReports(u)

\* C30: whatever the filename, the content get_report_content returns to a
\* user and the objects delete_report removes for a user are in that user's
\* own folder.
C30_OnlyOwnFolder ==
    st_call.op \in {"get", "delete"}
        => \A o \in st_call.objects : o.path.folder = st_call.user

====
